---- MODULE Spec2Model ----
(***************************************************************************)
(* Neighbor sampling over a heterogeneous graph, after                     *)
(* src/graph/sampling/neighbor/neighbor.cc: SampleGraphNeighbors,          *)
(* SampleNeighbors, SampleNeighborsTopk and SampleNeighborsBiased.         *)
(*                                                                         *)
(* Vertex ids, edge ids, vertex types and edge types are 0-based as in     *)
(* the source; TLA+ sequences are 1-based, so x[i + 1] reads entry i.      *)
(***************************************************************************)
EXTENDS Integers, Sequences, FiniteSets, TLC

VARIABLES
    api,            \* the entry point of this call
    hg,             \* the input graph
    nodes,          \* one frontier array per node type (Biased: one array)
    fanouts,        \* one fanout / k per edge type (Biased: one value)
    dir,            \* EdgeDir
    prob,           \* one weight array per edge type (null array = uniform)
    exclude_edges,  \* the exclusion list of SampleNeighbors
    replace,        \* replace flag (SampleNeighborsTopk: the ascending flag)
    tag,            \* SampleNeighborsBiased: [bias, shape0, shape1, split]
    pc,             \* position of the call
    g,              \* the graph handed to SampleGraphNeighbors
    copied,         \* a filtered copy of the graph was built
    reads,          \* the indices read from exclude_edges
    etype,          \* the loop counter of the per-edge-type loop
    subrels,        \* subrels[etype], filled by the loop
    induced_edges,  \* induced_edges[etype], filled by the loop
    fmt,            \* the format each loop iteration dispatched on
    ret             \* the returned HeteroSubgraph

vars == <<api, hg, nodes, fanouts, dir, prob, exclude_edges, replace, tag, pc,
          g, copied, reads, etype, subrels, induced_edges, fmt, ret>>

(***************************************************************************)
(* Bounds of the model.                                                    *)
(***************************************************************************)
MaxEdges == 2       \* edges of a graph, all edge types together
MaxFrontier == 2    \* frontier entries of a call, all node types together

(***************************************************************************)
(* Small helpers.                                                          *)
(***************************************************************************)
Range(s) == {s[i] : i \in DOMAIN s}

Min(a, b) == IF a < b THEN a ELSE b

SeqUpTo(S, n) == UNION {[1..k -> S] : k \in 0..n}

\* The numbers of the set S as a sequence, in increasing order.
RECURSIVE Ascending(_)
Ascending(S) ==
    IF S = {} THEN <<>>
    ELSE LET m == CHOOSE x \in S : \A y \in S : x <= y
         IN  <<m>> \o Ascending(S \ {m})

\* IndexSelect: the entries of s at the positions listed in idx.
IndexSelect(s, idx) == [k \in 1..Len(idx) |-> s[idx[k]]]

kOut == "out"
kIn == "in"
kCOO == "coo"
kCSR == "csr"
kCSC == "csc"
NullArray == <<>>
\* An unset handle and the outcome of a failed CHECK, as values that
\* compare with every record of the model.
Undefined == [undefined |-> TRUE]
Fatal == [fatal |-> TRUE]
Unset == "unset"

(***************************************************************************)
(* The heterogeneous graph: meta-graph, per-type vertex counts, and one    *)
(* relation per edge type.  A relation holds its own source and            *)
(* destination vertex counts and its edges; the identity of an edge is its *)
(* position in the relation, counted from 0.                               *)
(***************************************************************************)
NumVertexTypes(h) == Len(h.nv)
NumEdgeTypes(h) == Len(h.meta)
NumVertices(h, vtype) == h.nv[vtype + 1]
NumVerticesPerType(h) == h.nv
FindEdge(h, et) == h.meta[et + 1]
GetRelationGraph(h, et) == h.rels[et + 1]
NumEdges(h, et) == Len(h.rels[et + 1].src)

EdgeArrayAt(rel, pos) ==
    [src |-> IndexSelect(rel.src, pos),
     dst |-> IndexSelect(rel.dst, pos),
     id  |-> [k \in 1..Len(pos) |-> pos[k] - 1]]

\* Full edge listing of one edge type.
Edges(h, et) ==
    LET rel == GetRelationGraph(h, et)
    IN  EdgeArrayAt(rel, Ascending(DOMAIN rel.src))

\* The edges leaving a vertex of vids, in original edge order, each once.
OutEdges(h, et, vids) ==
    LET rel == GetRelationGraph(h, et)
    IN  EdgeArrayAt(rel, Ascending({i \in DOMAIN rel.src : rel.src[i] \in Range(vids)}))

\* The edges entering a vertex of vids, in original edge order, each once.
InEdges(h, et, vids) ==
    LET rel == GetRelationGraph(h, et)
    IN  EdgeArrayAt(rel, Ascending({i \in DOMAIN rel.dst : rel.dst[i] \in Range(vids)}))

\* The single-vertex overloads: the edges leaving / entering vertex vid;
\* a vertex the relation does not have is a fatal error.
OutEdgesOfVertex(h, et, vid) ==
    IF vid < GetRelationGraph(h, et).num_src THEN OutEdges(h, et, <<vid>>) ELSE Fatal

InEdgesOfVertex(h, et, vid) ==
    IF vid < GetRelationGraph(h, et).num_dst THEN InEdges(h, et, <<vid>>) ELSE Fatal

UnitGraphEmpty(num_src, num_dst) ==
    [num_src |-> num_src, num_dst |-> num_dst, src |-> <<>>, dst |-> <<>>]

CreateFromCOO(num_src, num_dst, row, col) ==
    [num_src |-> num_src, num_dst |-> num_dst, src |-> row, dst |-> col]

CreateHeteroGraph(meta, rels, nvpt) == [meta |-> meta, rels |-> rels, nv |-> nvpt]

(***************************************************************************)
(* Sparse matrices of one relation.  COO: parallel row / col / data        *)
(* arrays.  CSR: row offsets (indptr), column indices and edge identities  *)
(* sorted by row.  CSC is the CSR matrix of the transposed relation.       *)
(***************************************************************************)
COOMatrix(num_rows, num_cols, row, col, data) ==
    [num_rows |-> num_rows, num_cols |-> num_cols, row |-> row, col |-> col, data |-> data]

RECURSIVE RowOrder(_, _, _)
RowOrder(row, r, num_rows) ==
    IF r >= num_rows THEN <<>>
    ELSE Ascending({i \in DOMAIN row : row[i] = r}) \o RowOrder(row, r + 1, num_rows)

CSROf(num_rows, num_cols, row, col) ==
    LET order == RowOrder(row, 0, num_rows)
    IN  [num_rows |-> num_rows, num_cols |-> num_cols,
         indptr  |-> [r \in 1..(num_rows + 1) |->
                         Cardinality({i \in DOMAIN row : row[i] < r - 1})],
         indices |-> [k \in 1..Len(order) |-> col[order[k]]],
         data    |-> [k \in 1..Len(order) |-> order[k] - 1]]

GetCOOMatrix(h, et) ==
    LET rel == GetRelationGraph(h, et)
    IN  COOMatrix(rel.num_src, rel.num_dst, rel.src, rel.dst,
                  [i \in 1..Len(rel.src) |-> i - 1])

GetCSRMatrix(h, et) ==
    LET rel == GetRelationGraph(h, et)
    IN  CSROf(rel.num_src, rel.num_dst, rel.src, rel.dst)

GetCSCMatrix(h, et) ==
    LET rel == GetRelationGraph(h, et)
    IN  CSROf(rel.num_dst, rel.num_src, rel.dst, rel.src)

COOTranspose(coo) ==
    COOMatrix(coo.num_cols, coo.num_rows, coo.col, coo.row, coo.data)

\* The entries (column, edge identity) of row r, in storage order.
COORow(coo, r) ==
    LET pos == Ascending({i \in DOMAIN coo.row : coo.row[i] = r})
    IN  [k \in 1..Len(pos) |-> [col |-> coo.col[pos[k]], data |-> coo.data[pos[k]]]]

CSRRow(csr, r) ==
    LET lo == csr.indptr[r + 1]
        hi == csr.indptr[r + 2]
    IN  [k \in 1..(hi - lo) |-> [col |-> csr.indices[lo + k], data |-> csr.data[lo + k]]]

(***************************************************************************)
(* The row-wise kernels.  A kernel works row by row over the frontier      *)
(* array: one selection per entry of the array, entries in array order.    *)
(* Random selection is a choice among every outcome the kernel can give.   *)
(***************************************************************************)
\* The outcomes of picking num_samples entries of one row.
RowPicks(cands, num_samples, rep) ==
    IF rep
    THEN IF Len(cands) = 0 THEN {<<>>}
         ELSE {IndexSelect(cands, f) : f \in [1..num_samples -> DOMAIN cands]}
    ELSE IF Len(cands) <= num_samples THEN {cands}
         ELSE {IndexSelect(cands, Ascending(T)) :
                  T \in {U \in SUBSET DOMAIN cands : Cardinality(U) = num_samples}}

\* The k entries of one row with extreme weight; ties keep input order.
RowTopk(cands, k, weight, ascending) ==
    LET w(i) == weight[cands[i].data + 1]
        Before(i, j) == \/ (ascending /\ w(i) < w(j))
                        \/ (~ascending /\ w(i) > w(j))
                        \/ (w(i) = w(j) /\ i < j)
        Rank(j) == Cardinality({i \in DOMAIN cands : Before(i, j)})
    IN  [n \in 1..Min(k, Len(cands)) |-> cands[CHOOSE j \in DOMAIN cands : Rank(j) = n - 1]]

Triples(r, picks) ==
    [k \in 1..Len(picks) |-> [row |-> r, col |-> picks[k].col, data |-> picks[k].data]]

\* Every way to concatenate one outcome per frontier entry.
RECURSIVE PickAll(_, _)
PickAll(rows, outcomes) ==
    IF rows = <<>> THEN {<<>>}
    ELSE {Triples(Head(rows), p) \o rest :
             p \in Head(outcomes), rest \in PickAll(Tail(rows), Tail(outcomes))}

PickedCOO(num_rows, num_cols, t) ==
    COOMatrix(num_rows, num_cols,
              [k \in 1..Len(t) |-> t[k].row],
              [k \in 1..Len(t) |-> t[k].col],
              [k \in 1..Len(t) |-> t[k].data])

\* The weights of prob set the odds of an outcome; with no weights (a null
\* array) or positive weights the set of outcomes is the same.
COORowWiseSampling(coo, rows, num_samples, prob_e, rep) ==
    {PickedCOO(coo.num_rows, coo.num_cols, t) :
        t \in PickAll(rows, [i \in 1..Len(rows) |->
                                RowPicks(COORow(coo, rows[i]), num_samples, rep)])}

CSRRowWiseSampling(csr, rows, num_samples, prob_e, rep) ==
    {PickedCOO(csr.num_rows, csr.num_cols, t) :
        t \in PickAll(rows, [i \in 1..Len(rows) |->
                                RowPicks(CSRRow(csr, rows[i]), num_samples, rep)])}

COORowWiseTopk(coo, rows, k, weight, ascending) ==
    {PickedCOO(coo.num_rows, coo.num_cols, t) :
        t \in PickAll(rows, [i \in 1..Len(rows) |->
                                {RowTopk(COORow(coo, rows[i]), k, weight, ascending)}])}

CSRRowWiseTopk(csr, rows, k, weight, ascending) ==
    {PickedCOO(csr.num_rows, csr.num_cols, t) :
        t \in PickAll(rows, [i \in 1..Len(rows) |->
                                {RowTopk(CSRRow(csr, rows[i]), k, weight, ascending)}])}

\* The entries of a row whose tag has positive bias.  The tag offsets of a
\* row with c entries are <<0, c>> for one tag and <<0, Min(split, c), c>>
\* for two.
BiasedRow(csr, r, tg) ==
    LET cands == CSRRow(csr, r)
        cut   == IF Len(tg.bias) = 1 THEN Len(cands) ELSE Min(tg.split, Len(cands))
        TagOf(i) == IF i <= cut THEN 1 ELSE 2
    IN  IndexSelect(cands, Ascending({i \in DOMAIN cands : tg.bias[TagOf(i)] > 0}))

CSRRowWiseSamplingBiased(csr, rows, num_samples, tg, rep) ==
    {PickedCOO(csr.num_rows, csr.num_cols, t) :
        t \in PickAll(rows, [i \in 1..Len(rows) |->
                                RowPicks(BiasedRow(csr, rows[i], tg), num_samples, rep)])}

(***************************************************************************)
(* The graph container's remaining services.                               *)
(***************************************************************************)
Formats == {kCOO, kCSR, kCSC}

\* excludeCertainEids: the identities of the edge array that the exclusion
\* array does not list, in the edge array's order.
ExcludeCertainEids(earr, excluded) ==
    IndexSelect(earr.id, Ascending({i \in DOMAIN earr.id : earr.id[i] \notin excluded}))

\* EdgeSubgraph with preserve_nodes: a HeteroSubgraph whose graph holds, per
\* edge type, the listed edges on the unchanged vertex sets, and whose
\* induced_edges map each edge of that graph back to its parent identity.
EdgeSubgraph(h, eids) ==
    [graph |-> CreateHeteroGraph(
                   h.meta,
                   [e \in 1..NumEdgeTypes(h) |->
                       CreateFromCOO(h.rels[e].num_src, h.rels[e].num_dst,
                                     [k \in 1..Len(eids[e]) |-> h.rels[e].src[eids[e][k] + 1]],
                                     [k \in 1..Len(eids[e]) |-> h.rels[e].dst[eids[e][k] + 1]])],
                   NumVerticesPerType(h)),
     induced_vertices |-> [t \in 1..NumVertexTypes(h) |-> Undefined],
     induced_edges |-> eids]

(***************************************************************************)
(* SampleGraphNeighbors: one iteration of the loop over the edge types.    *)
(***************************************************************************)
\* nodes[(dir == EdgeDir::kOut) ? src_vtype : dst_vtype]
FrontierOf(h, et, nds, d) ==
    nds[(IF d = kOut THEN FindEdge(h, et).src ELSE FindEdge(h, et).dst) + 1]

\* A keep-all branch that lists the edges of the opposite direction.
KeepAllEdgesSwapped(h, et, nodes_ntype, d) ==
    IF d = kOut THEN InEdges(h, et, nodes_ntype) ELSE OutEdges(h, et, nodes_ntype)

\* The edge listing of the keep-all branch.
KeepAllEdges(h, et, nodes_ntype, d) ==
    IF d = kOut THEN OutEdges(h, et, nodes_ntype) ELSE InEdges(h, et, nodes_ntype)

\* A switch whose CSR and CSC arms sample without replacement whatever the
\* replace flag says.
SampledCOOIgnoringReplace(h, et, nodes_ntype, fanout, d, prob_e, rep, avail_fmt) ==
    CASE avail_fmt = kCOO ->
            IF d = kIn
            THEN {COOTranspose(c) :
                     c \in COORowWiseSampling(COOTranspose(GetCOOMatrix(h, et)),
                                              nodes_ntype, fanout, prob_e, rep)}
            ELSE COORowWiseSampling(GetCOOMatrix(h, et), nodes_ntype, fanout, prob_e, rep)
      [] avail_fmt = kCSR ->
            IF d = kOut
            THEN CSRRowWiseSampling(GetCSRMatrix(h, et), nodes_ntype, fanout, prob_e, FALSE)
            ELSE {Fatal}
      [] avail_fmt = kCSC ->
            IF d = kIn
            THEN {COOTranspose(c) :
                     c \in CSRRowWiseSampling(GetCSCMatrix(h, et), nodes_ntype, fanout,
                                              prob_e, FALSE)}
            ELSE {Fatal}
      [] OTHER -> {Fatal}

\* The switch over the selected format: the outcomes of sampled_coo.
SampledCOO(h, et, nodes_ntype, fanout, d, prob_e, rep, avail_fmt) ==
    CASE avail_fmt = kCOO ->
            IF d = kIn
            THEN {COOTranspose(c) :
                     c \in COORowWiseSampling(COOTranspose(GetCOOMatrix(h, et)),
                                              nodes_ntype, fanout, prob_e, rep)}
            ELSE COORowWiseSampling(GetCOOMatrix(h, et), nodes_ntype, fanout, prob_e, rep)
      [] avail_fmt = kCSR ->
            IF d = kOut
            THEN CSRRowWiseSampling(GetCSRMatrix(h, et), nodes_ntype, fanout, prob_e, rep)
            ELSE {Fatal}
      [] avail_fmt = kCSC ->
            IF d = kIn
            THEN {COOTranspose(c) :
                     c \in CSRRowWiseSampling(GetCSCMatrix(h, et), nodes_ntype, fanout,
                                              prob_e, rep)}
            ELSE {Fatal}
      [] OTHER -> {Fatal}

\* A placeholder with the source and destination counts exchanged.
PlaceholderSwapped(h, et) ==
    [rel |-> UnitGraphEmpty(NumVertices(h, FindEdge(h, et).dst),
                            NumVertices(h, FindEdge(h, et).src)),
     ie  |-> NullArray]

Placeholder(h, et) ==
    [rel |-> UnitGraphEmpty(NumVertices(h, FindEdge(h, et).src),
                            NumVertices(h, FindEdge(h, et).dst)),
     ie  |-> NullArray]

KeptAll(h, et, earr) ==
    [rel |-> CreateFromCOO(NumVertices(h, FindEdge(h, et).src),
                           NumVertices(h, FindEdge(h, et).dst),
                           earr.src, earr.dst),
     ie  |-> earr.id]

\* A relation built with the sampled matrix's counts exchanged.
FromSampledSwapped(c) ==
    IF c = Fatal THEN Fatal
    ELSE [rel |-> CreateFromCOO(c.num_cols, c.num_rows, c.row, c.col), ie |-> c.data]

FromSampled(c) ==
    IF c = Fatal THEN Fatal
    ELSE [rel |-> CreateFromCOO(c.num_rows, c.num_cols, c.row, c.col), ie |-> c.data]

\* The body of the loop: the outcomes (relation, induced edges) of one
\* edge type, or Fatal.
SampleRelation(h, et, nds, fns, d, pr, rep, avail_fmt) ==
    LET nodes_ntype == FrontierOf(h, et, nds, d)
        num_nodes   == Len(nodes_ntype)
    IN  IF num_nodes = 0 \/ fns[et + 1] = 0
        THEN {Placeholder(h, et)}
        ELSE IF fns[et + 1] = -1
        THEN {KeptAll(h, et, KeepAllEdges(h, et, nodes_ntype, d))}
        ELSE {FromSampled(c) :
                 c \in SampledCOO(h, et, nodes_ntype, fns[et + 1], d, pr[et + 1], rep,
                                  avail_fmt)}

\* The format the iteration dispatched on, "none" outside the switch.
Dispatched(h, et, nds, fns, d, avail_fmt) ==
    IF Len(FrontierOf(h, et, nds, d)) = 0 \/ fns[et + 1] = 0 \/ fns[et + 1] = -1
    THEN "none" ELSE avail_fmt

\* ret: the assembled HeteroSubgraph.
Assemble(h, rels, ies) ==
    [graph |-> CreateHeteroGraph(h.meta, rels, NumVerticesPerType(h)),
     induced_vertices |-> [t \in 1..NumVertexTypes(h) |-> Undefined],
     induced_edges |-> ies]

(***************************************************************************)
(* SampleNeighborsTopk: the same loop over the top-k kernels.              *)
(***************************************************************************)
\* A switch whose inbound COO arm does not transpose the result back.
TopkCOONotTransposedBack(h, et, nodes_ntype, k, d, weight, ascending, avail_fmt) ==
    CASE avail_fmt = kCOO ->
            IF d = kIn
            THEN COORowWiseTopk(COOTranspose(GetCOOMatrix(h, et)),
                                nodes_ntype, k, weight, ascending)
            ELSE COORowWiseTopk(GetCOOMatrix(h, et), nodes_ntype, k, weight, ascending)
      [] avail_fmt = kCSR ->
            IF d = kOut
            THEN CSRRowWiseTopk(GetCSRMatrix(h, et), nodes_ntype, k, weight, ascending)
            ELSE {Fatal}
      [] avail_fmt = kCSC ->
            IF d = kIn
            THEN {COOTranspose(c) :
                     c \in CSRRowWiseTopk(GetCSCMatrix(h, et), nodes_ntype, k, weight,
                                          ascending)}
            ELSE {Fatal}
      [] OTHER -> {Fatal}

TopkCOO(h, et, nodes_ntype, k, d, weight, ascending, avail_fmt) ==
    CASE avail_fmt = kCOO ->
            IF d = kIn
            THEN {COOTranspose(c) :
                     c \in COORowWiseTopk(COOTranspose(GetCOOMatrix(h, et)),
                                          nodes_ntype, k, weight, ascending)}
            ELSE COORowWiseTopk(GetCOOMatrix(h, et), nodes_ntype, k, weight, ascending)
      [] avail_fmt = kCSR ->
            IF d = kOut
            THEN CSRRowWiseTopk(GetCSRMatrix(h, et), nodes_ntype, k, weight, ascending)
            ELSE {Fatal}
      [] avail_fmt = kCSC ->
            IF d = kIn
            THEN {COOTranspose(c) :
                     c \in CSRRowWiseTopk(GetCSCMatrix(h, et), nodes_ntype, k, weight,
                                          ascending)}
            ELSE {Fatal}
      [] OTHER -> {Fatal}

TopkRelation(h, et, nds, ks, d, weights, ascending, avail_fmt) ==
    LET nodes_ntype == FrontierOf(h, et, nds, d)
        num_nodes   == Len(nodes_ntype)
    IN  IF num_nodes = 0 \/ ks[et + 1] = 0
        THEN {Placeholder(h, et)}
        ELSE IF ks[et + 1] = -1
        THEN {KeptAll(h, et, KeepAllEdges(h, et, nodes_ntype, d))}
        ELSE {FromSampled(c) :
                 c \in TopkCOO(h, et, nodes_ntype, ks[et + 1], d, weights[et + 1],
                               ascending, avail_fmt)}

(***************************************************************************)
(* SampleNeighbors: the sanity checks and the exclusion step.              *)
(***************************************************************************)
\* Sanity checks that leave the weight-array count unchecked.
SanityCheckWithoutProb(h, nds, fns, pr) ==
    /\ Len(nds) = NumVertexTypes(h)
    /\ Len(fns) = NumEdgeTypes(h)

SanityCheck(h, nds, fns, pr) ==
    /\ Len(nds) = NumVertexTypes(h)
    /\ Len(fns) = NumEdgeTypes(h)
    /\ Len(pr) = NumEdgeTypes(h)

\* An exclusion step that runs whatever the list holds.
ExclusionAlways(ex) == TRUE

\* !exclude_edges.empty()
ExclusionSupplied(ex) == ex # <<>>

ExclusionArrays == SUBSET (0..(MaxEdges - 1))

\* exclude_edges[etype]: std::vector::operator[] checks no bounds; a read
\* past the end is undefined: the call crashes or reads some array.
ReadExclude(ex, et) ==
    IF et < Len(ex) THEN {[arr |-> ex[et + 1]]}
    ELSE {[arr |-> a] : a \in ExclusionArrays} \cup {Fatal}

\* What the loop over the edge types reads, entry by entry.
ReadOutcomes(h, ex) ==
    {r \in [1..NumEdgeTypes(h) -> {[arr |-> a] : a \in ExclusionArrays} \cup {Fatal}] :
        \A e \in 1..NumEdgeTypes(h) : r[e] \in ReadExclude(ex, e - 1)}

RemainEdges(h, r) ==
    [e \in 1..NumEdgeTypes(h) |-> ExcludeCertainEids(Edges(h, e - 1), r[e].arr)]

\* The graph SampleGraphNeighbors is called with after the exclusion step.
FilteredGraph(h, r) == EdgeSubgraph(h, RemainEdges(h, r)).graph

(***************************************************************************)
(* SampleNeighborsBiased: the whole call.                                  *)
(***************************************************************************)
BiasedSanityCheck(h, tg, nodes_ntype) ==
    /\ tg.ndim = 2
    /\ tg.shape0 = NumVertices(h, nodes_ntype)
    /\ tg.shape1 = Len(tg.bias) + 1

\* The edge listing of the keep-all branch: nodes_ntype is the node TYPE
\* (a dgl_type_t), so the call resolves to the single-vertex overloads.
BiasedKeepAllEdges(h, et, nodes_ntype, d) ==
    IF d = kOut THEN OutEdgesOfVertex(h, et, nodes_ntype)
    ELSE InEdgesOfVertex(h, et, nodes_ntype)

BiasedCOO(h, et, nds, fanout, tg, d, rep, created_fmt) ==
    IF d = kOut
    THEN IF kCSR \in created_fmt
         THEN CSRRowWiseSamplingBiased(GetCSRMatrix(h, et), nds, fanout, tg, rep)
         ELSE {Fatal}
    ELSE IF kCSC \in created_fmt
         THEN {COOTranspose(c) :
                  c \in CSRRowWiseSamplingBiased(GetCSCMatrix(h, et), nds, fanout, tg, rep)}
         ELSE {Fatal}

BiasedRelation(h, nds, fanout, tg, d, rep, created_fmt) ==
    LET nodes_ntype == IF d = kOut THEN FindEdge(h, 0).src ELSE FindEdge(h, 0).dst
        num_nodes   == Len(nds)
    IN  IF num_nodes = 0 \/ fanout = 0
        THEN {Placeholder(h, 0)}
        ELSE IF fanout = -1
        THEN LET earr == BiasedKeepAllEdges(h, 0, nodes_ntype, d)
             IN  {IF earr = Fatal THEN Fatal ELSE KeptAll(h, 0, earr)}
        ELSE {FromSampled(c) : c \in BiasedCOO(h, 0, nds, fanout, tg, d, rep, created_fmt)}

BiasedResult(h, nds, fanout, tg, d, rep, created_fmt) ==
    IF NumEdgeTypes(h) # 1 THEN {Fatal}
    ELSE IF ~BiasedSanityCheck(h, tg, IF d = kOut THEN FindEdge(h, 0).src
                                      ELSE FindEdge(h, 0).dst)
    THEN {Fatal}
    ELSE {IF o = Fatal THEN Fatal ELSE Assemble(h, <<o.rel>>, <<o.ie>>) :
             o \in BiasedRelation(h, nds, fanout, tg, d, rep, created_fmt)}

(***************************************************************************)
(* The calls the model makes.                                              *)
(***************************************************************************)
VertexCounts == <<1, 2>>

Bipartite == <<[src |-> 0, dst |-> 1]>>
Hetero == <<[src |-> 0, dst |-> 1], [src |-> 1, dst |-> 0]>>
MetaGraphs == {Bipartite, Hetero}

VerticesOf(vtype) == 0..(VertexCounts[vtype + 1] - 1)

RelOf(m, pairs) ==
    CreateFromCOO(VertexCounts[m.src + 1], VertexCounts[m.dst + 1],
                  [i \in 1..Len(pairs) |-> pairs[i][1]],
                  [i \in 1..Len(pairs) |-> pairs[i][2]])

\* One edge list per edge type of meta, at most budget edges in all.
RECURSIVE EdgeListsFor(_, _)
EdgeListsFor(meta, budget) ==
    IF meta = <<>> THEN {<<>>}
    ELSE UNION {{<<a>> \o rest : rest \in EdgeListsFor(Tail(meta), budget - Len(a))} :
                   a \in SeqUpTo(VerticesOf(Head(meta).src) \X VerticesOf(Head(meta).dst),
                                 budget)}

GraphsOf(meta) ==
    {CreateHeteroGraph(meta, [e \in 1..Len(meta) |-> RelOf(meta[e], ls[e])], VertexCounts) :
        ls \in EdgeListsFor(meta, MaxEdges)}

Graphs == UNION {GraphsOf(meta) : meta \in MetaGraphs}

\* One frontier array per node type, at most budget entries in all.
RECURSIVE FrontiersFor(_, _)
FrontiersFor(counts, budget) ==
    IF counts = <<>> THEN {<<>>}
    ELSE UNION {{<<a>> \o rest : rest \in FrontiersFor(Tail(counts), budget - Len(a))} :
                   a \in SeqUpTo(0..(Head(counts) - 1), budget)}

\* Keep all, skip, fewer than a row can hold, more than a row can hold.
FanoutValues == {-1, 0, 1, 2}

\* One exclusion array per edge type: all empty, or one identity of the
\* graph excluded for one edge type.
FullExcludeLists(h) ==
    {[e \in 1..NumEdgeTypes(h) |-> {}]}
    \cup {[e \in 1..NumEdgeTypes(h) |-> IF e = t THEN {id} ELSE {}] :
             t \in 1..NumEdgeTypes(h), id \in 0..(MaxEdges - 1)}

\* A list with one entry per edge type, or a list of empty arrays that is
\* one entry short.
ExcludeChoices(h) ==
    {x \in FullExcludeLists(h) :
        \A e \in DOMAIN x : \A id \in x[e] : id < NumEdges(h, e - 1)}
    \cup ({[e \in 1..(NumEdgeTypes(h) - 1) |-> {}]} \ {<<>>})

Uniform(h) == [e \in 1..NumEdgeTypes(h) |-> NullArray]

\* Top-k weights, one per edge: all equal, or growing with the identity.
WeightChoices(h) ==
    {[e \in 1..NumEdgeTypes(h) |-> [i \in 1..NumEdges(h, e - 1) |-> IF eq THEN 1 ELSE i]] :
        eq \in BOOLEAN}

\* List lengths that break exactly one of the three cardinality checks.
SizeErrors ==
    {d \in [nodes : {-1, 0, 1}, fanouts : {-1, 0, 1}, prob : {-1, 0, 1}] :
        Cardinality({f \in {"nodes", "fanouts", "prob"} : d[f] # 0}) = 1}

NoTag == [ndim |-> 2, shape0 |-> 0, shape1 |-> 0, bias |-> <<>>, split |-> 0]

\* tag_offset / bias pairs: well-shaped ones, and one per broken check.
TagChoices(n) ==
    {[ndim |-> 2, shape0 |-> n, shape1 |-> Len(b) + 1, bias |-> b, split |-> 1] :
        b \in {<<1>>, <<1, 0>>, <<0, 1>>}}
    \cup {[ndim |-> 1, shape0 |-> n, shape1 |-> 2, bias |-> <<1>>, split |-> 1],
          [ndim |-> 2, shape0 |-> n + 1, shape1 |-> 2, bias |-> <<1>>, split |-> 1],
          [ndim |-> 2, shape0 |-> n, shape1 |-> 3, bias |-> <<1>>, split |-> 1]}

InitCall ==
    /\ pc = "start"
    /\ g = hg
    /\ copied = FALSE
    /\ reads = {}
    /\ etype = 0
    /\ subrels = <<>>
    /\ induced_edges = <<>>
    /\ fmt = <<>>
    /\ ret = Undefined

\* Well-sized calls of SampleNeighbors without an exclusion list.
InitSampleNeighbors ==
    /\ api = "SampleNeighbors"
    /\ hg \in Graphs
    /\ nodes \in FrontiersFor(hg.nv, MaxFrontier)
    /\ fanouts \in [1..NumEdgeTypes(hg) -> FanoutValues]
    /\ dir \in {kOut, kIn}
    /\ prob = Uniform(hg)
    /\ exclude_edges = <<>>
    /\ replace \in BOOLEAN
    /\ tag = NoTag

\* Well-sized calls of SampleNeighbors with an exclusion list, keeping all
\* or sampling one edge per row.
InitExclusion ==
    /\ api = "SampleNeighbors"
    /\ hg \in Graphs
    /\ nodes \in FrontiersFor(hg.nv, MaxFrontier)
    /\ fanouts \in [1..NumEdgeTypes(hg) -> {-1, 1}]
    /\ dir \in {kOut, kIn}
    /\ prob = Uniform(hg)
    /\ exclude_edges \in ExcludeChoices(hg)
    /\ replace \in BOOLEAN
    /\ tag = NoTag

\* Well-sized calls of SampleNeighborsTopk.
InitTopk ==
    /\ api = "SampleNeighborsTopk"
    /\ hg \in Graphs
    /\ nodes \in FrontiersFor(hg.nv, MaxFrontier)
    /\ fanouts \in [1..NumEdgeTypes(hg) -> FanoutValues]
    /\ dir \in {kOut, kIn}
    /\ prob \in WeightChoices(hg)
    /\ exclude_edges = <<>>
    /\ replace \in BOOLEAN
    /\ tag = NoTag

\* Calls of either entry point with one list of the wrong length.
InitMisSized ==
    /\ api \in {"SampleNeighbors", "SampleNeighborsTopk"}
    /\ hg \in Graphs
    /\ \E d \in SizeErrors, f \in FanoutValues \ {0} :
          /\ nodes = [t \in 1..(NumVertexTypes(hg) + d.nodes) |-> <<0>>]
          /\ fanouts = [e \in 1..(NumEdgeTypes(hg) + d.fanouts) |-> f]
          /\ prob = [e \in 1..(NumEdgeTypes(hg) + d.prob) |-> NullArray]
    /\ dir \in {kOut, kIn}
    /\ exclude_edges \in IF api = "SampleNeighbors"
                         THEN {<<>>, [e \in 1..NumEdgeTypes(hg) |-> {0}]}
                         ELSE {<<>>}
    /\ replace \in BOOLEAN
    /\ tag = NoTag

\* Calls of SampleNeighborsBiased.
InitBiased ==
    /\ api = "SampleNeighborsBiased"
    /\ hg \in Graphs
    /\ dir \in {kOut, kIn}
    /\ \E vtype \in {IF dir = kOut THEN FindEdge(hg, 0).src ELSE FindEdge(hg, 0).dst} :
          /\ nodes \in {<<a>> : a \in SeqUpTo(VerticesOf(vtype), MaxFrontier)}
          /\ tag \in TagChoices(NumVertices(hg, vtype))
    /\ fanouts \in {<<f>> : f \in FanoutValues}
    /\ prob = <<>>
    /\ exclude_edges = <<>>
    /\ replace \in BOOLEAN

Init ==
    /\ InitSampleNeighbors \/ InitExclusion \/ InitTopk \/ InitMisSized \/ InitBiased
    /\ InitCall

(***************************************************************************)
(* Actions.                                                                *)
(***************************************************************************)
inputs == <<api, hg, nodes, fanouts, dir, prob, exclude_edges, replace, tag>>
loop == <<etype, subrels, induced_edges, fmt>>

Fail ==
    /\ pc' = "fatal"
    /\ UNCHANGED <<g, copied, loop, ret>>

\* Entry into the loop of SampleGraphNeighbors / SampleNeighborsTopk:
\* subrels and induced_edges are sized, every slot still unset.
EnterLoop(h) ==
    /\ pc' = "sampling"
    /\ g' = h
    /\ etype' = 0
    /\ subrels' = [e \in 1..NumEdgeTypes(h) |-> Undefined]
    /\ induced_edges' = [e \in 1..NumEdgeTypes(h) |-> Undefined]
    /\ fmt' = [e \in 1..NumEdgeTypes(h) |-> Unset]
    /\ UNCHANGED ret

\* SampleNeighbors up to its call of SampleGraphNeighbors.
SampleNeighbors ==
    /\ pc = "start"
    /\ api = "SampleNeighbors"
    /\ IF ~SanityCheck(hg, nodes, fanouts, prob)
       THEN Fail /\ UNCHANGED reads
       ELSE IF ExclusionSupplied(exclude_edges)
       THEN \E r \in ReadOutcomes(hg, exclude_edges) :
               /\ reads' = 0..(NumEdgeTypes(hg) - 1)
               /\ IF Fatal \in Range(r)
                  THEN Fail
                  ELSE /\ copied' = TRUE
                       /\ EnterLoop(FilteredGraph(hg, r))
       ELSE /\ EnterLoop(hg)
            /\ UNCHANGED <<copied, reads>>
    /\ UNCHANGED inputs

\* One iteration of the loop of SampleGraphNeighbors.
SampleGraphNeighborsEtype ==
    /\ pc = "sampling"
    /\ api = "SampleNeighbors"
    /\ etype < NumEdgeTypes(g)
    /\ \E avail_fmt \in Formats :
       \E o \in SampleRelation(g, etype, nodes, fanouts, dir, prob, replace, avail_fmt) :
          IF o = Fatal
          THEN /\ pc' = "fatal"
               /\ UNCHANGED loop
          ELSE /\ subrels' = [subrels EXCEPT ![etype + 1] = o.rel]
               /\ induced_edges' = [induced_edges EXCEPT ![etype + 1] = o.ie]
               /\ fmt' = [fmt EXCEPT ![etype + 1] =
                             Dispatched(g, etype, nodes, fanouts, dir, avail_fmt)]
               /\ etype' = etype + 1
               /\ UNCHANGED pc
    /\ UNCHANGED <<inputs, g, copied, reads, ret>>

\* SampleNeighborsTopk: the sanity checks.
SampleNeighborsTopk ==
    /\ pc = "start"
    /\ api = "SampleNeighborsTopk"
    /\ IF ~SanityCheck(hg, nodes, fanouts, prob)
       THEN Fail
       ELSE EnterLoop(hg) /\ UNCHANGED copied
    /\ UNCHANGED <<inputs, reads>>

\* One iteration of the loop of SampleNeighborsTopk.
SampleNeighborsTopkEtype ==
    /\ pc = "sampling"
    /\ api = "SampleNeighborsTopk"
    /\ etype < NumEdgeTypes(g)
    /\ \E avail_fmt \in Formats :
       \E o \in TopkRelation(g, etype, nodes, fanouts, dir, prob, replace, avail_fmt) :
          IF o = Fatal
          THEN /\ pc' = "fatal"
               /\ UNCHANGED loop
          ELSE /\ subrels' = [subrels EXCEPT ![etype + 1] = o.rel]
               /\ induced_edges' = [induced_edges EXCEPT ![etype + 1] = o.ie]
               /\ fmt' = [fmt EXCEPT ![etype + 1] =
                             Dispatched(g, etype, nodes, fanouts, dir, avail_fmt)]
               /\ etype' = etype + 1
               /\ UNCHANGED pc
    /\ UNCHANGED <<inputs, g, copied, reads, ret>>

\* After the loop: the subgraph is assembled and returned.
Return ==
    /\ pc = "sampling"
    /\ etype = NumEdgeTypes(g)
    /\ ret' = Assemble(g, subrels, induced_edges)
    /\ pc' = "done"
    /\ UNCHANGED <<inputs, g, copied, reads, loop>>

\* SampleNeighborsBiased, the whole call.
SampleNeighborsBiased ==
    /\ pc = "start"
    /\ api = "SampleNeighborsBiased"
    /\ \E created_fmt \in SUBSET Formats :
       \E o \in BiasedResult(hg, nodes[1], fanouts[1], tag, dir, replace, created_fmt) :
          IF o = Fatal
          THEN pc' = "fatal" /\ UNCHANGED <<ret, fmt>>
          ELSE /\ ret' = o
               /\ pc' = "done"
               /\ fmt' = <<IF Len(nodes[1]) = 0 \/ fanouts[1] \in {0, -1} THEN "none"
                           ELSE IF dir = kOut THEN kCSR ELSE kCSC>>
    /\ UNCHANGED <<inputs, g, copied, reads, etype, subrels, induced_edges>>

Next ==
    \/ SampleNeighbors
    \/ SampleGraphNeighborsEtype
    \/ SampleNeighborsTopk
    \/ SampleNeighborsTopkEtype
    \/ Return
    \/ SampleNeighborsBiased

Spec == Init /\ [][Next]_vars

(***************************************************************************)
(* Vocabulary of the properties, stated on the inputs of the call.         *)
(***************************************************************************)
ETypes == 0..(Len(hg.meta) - 1)

BySampleNeighbors == api = "SampleNeighbors"
ByTopk == api = "SampleNeighborsTopk"
ByBiased == api = "SampleNeighborsBiased"

\* The frontier array of edge type e: source type outbound, destination
\* type inbound.
FrontierArray(e) ==
    nodes[(IF dir = kOut THEN hg.meta[e + 1].src ELSE hg.meta[e + 1].dst) + 1]

\* The frontier-side endpoint of edge identity id of edge type e in graph h.
FrontierSide(h, e, id) ==
    IF dir = kOut THEN h.rels[e + 1].src[id + 1] ELSE h.rels[e + 1].dst[id + 1]

\* The identities of the edges of type e of h incident to frontier F in the
\* requested direction, in original order, each once.
Incident(h, e, F) ==
    Ascending({id \in 0..(Len(h.rels[e + 1].src) - 1) : FrontierSide(h, e, id) \in Range(F)})

\* Output edge k of type e is the input edge whose identity it carries.
SameEdge(h, e, k) ==
    LET id == ret.induced_edges[e + 1][k]
    IN  /\ id \in 0..(Len(h.rels[e + 1].src) - 1)
        /\ ret.graph.rels[e + 1].src[k] = h.rels[e + 1].src[id + 1]
        /\ ret.graph.rels[e + 1].dst[k] = h.rels[e + 1].dst[id + 1]

Skipped(e) == fanouts[e + 1] = 0 \/ FrontierArray(e) = <<>>

Occurrences(F, v) == Cardinality({i \in DOMAIN F : F[i] = v})

\* The output edges of type e whose frontier-side endpoint is v.
RowCount(e, v) ==
    Cardinality({k \in DOMAIN ret.induced_edges[e + 1] :
                    (IF dir = kOut THEN ret.graph.rels[e + 1].src[k]
                     ELSE ret.graph.rels[e + 1].dst[k]) = v})

\* The edges of type e of h available at v in the requested direction.
Available(h, e, v) ==
    Cardinality({id \in 0..(Len(h.rels[e + 1].src) - 1) : FrontierSide(h, e, id) = v})

\* One of the three list lengths is wrong.
MisSized ==
    \/ Len(nodes) # Len(hg.nv)
    \/ Len(fanouts) # Len(hg.meta)
    \/ Len(prob) # Len(hg.meta)

(***************************************************************************)
(* C1.  Keep-all in SampleNeighbors without an exclusion list and in       *)
(* SampleNeighborsTopk: for every edge type whose fanout / k is -1 and     *)
(* whose frontier is non-empty, the induced edge identities are exactly    *)
(* the input edges of that type incident to a frontier node in the         *)
(* requested direction, in original order, each once, and every output     *)
(* edge has the endpoints of the input edge it names.                      *)
(***************************************************************************)
KeepAllExact ==
    (pc = "done" /\ (ByTopk \/ (BySampleNeighbors /\ exclude_edges = <<>>))) =>
        \A e \in ETypes :
            (fanouts[e + 1] = -1 /\ FrontierArray(e) # <<>>) =>
                /\ ret.induced_edges[e + 1] = Incident(hg, e, FrontierArray(e))
                /\ \A k \in DOMAIN ret.induced_edges[e + 1] : SameEdge(hg, e, k)

\* A keep-all that keeps some edges of the type and leaves others out.
KeepAllWitness ==
    /\ pc = "done"
    /\ BySampleNeighbors
    /\ exclude_edges = <<>>
    /\ \E e \in ETypes :
          /\ fanouts[e + 1] = -1
          /\ FrontierArray(e) # <<>>
          /\ Len(ret.induced_edges[e + 1]) > 0
          /\ Len(ret.induced_edges[e + 1]) < Len(hg.rels[e + 1].src)

(***************************************************************************)
(* C2.  Keep-all in SampleNeighborsBiased: with fanout -1 and a non-empty  *)
(* frontier array, the induced edge identities are exactly the edges       *)
(* incident to the nodes of the frontier array in the requested direction, *)
(* in original order, each once.                                           *)
(***************************************************************************)
BiasedKeepAllExact ==
    (ByBiased /\ pc = "done" /\ fanouts[1] = -1 /\ nodes[1] # <<>>) =>
        ret.induced_edges[1] = Incident(hg, 0, nodes[1])

(***************************************************************************)
(* C3.  Exclusion in SampleNeighbors: with an exclusion list of one array  *)
(* per edge type, every induced edge identity returned for a type, read    *)
(* as an identity of the input graph, names an edge of that type that the  *)
(* type's exclusion array does not list, and the output edge has that      *)
(* input edge's endpoints.                                                 *)
(***************************************************************************)
ExcludedNeverReturned ==
    (BySampleNeighbors /\ pc = "done" /\ Len(exclude_edges) = Len(hg.meta)) =>
        \A e \in ETypes :
            \A k \in DOMAIN ret.induced_edges[e + 1] :
                /\ ret.induced_edges[e + 1][k] \notin exclude_edges[e + 1]
                /\ SameEdge(hg, e, k)

\* The state half of the skip rule: the slots and the returned relation of
\* a skipped type, and no failure in its iteration.
SkippedTypeIsPlaceholder ==
    ((BySampleNeighbors \/ ByTopk) /\ pc \in {"sampling", "done", "fatal"}
        /\ subrels # <<>>) =>
        \A e \in ETypes :
            Skipped(e) =>
                /\ (pc = "fatal") => (etype # e)
                /\ (etype > e) =>
                      /\ subrels[e + 1] =
                            [num_src |-> hg.nv[hg.meta[e + 1].src + 1],
                             num_dst |-> hg.nv[hg.meta[e + 1].dst + 1],
                             src |-> <<>>, dst |-> <<>>]
                      /\ induced_edges[e + 1] = NullArray
                /\ (pc = "done") =>
                      /\ ret.graph.rels[e + 1] = subrels[e + 1]
                      /\ ret.induced_edges[e + 1] = NullArray

\* The iteration of an edge type writes the slots of that type only.
OnlyOwnSlot ==
    (pc = "sampling" /\ subrels' # subrels) =>
        /\ etype' = etype + 1
        /\ \A o \in ETypes \ {etype} :
              /\ subrels'[o + 1] = subrels[o + 1]
              /\ induced_edges'[o + 1] = induced_edges[o + 1]

(***************************************************************************)
(* C4.  Skip rule and its priority, in SampleNeighbors and                 *)
(* SampleNeighborsTopk: an edge type whose fanout / k is 0 or whose        *)
(* frontier is empty (fanout -1 included) gets a relation with no edges,   *)
(* the input's source and destination vertex counts and a null             *)
(* induced-edge array, the call never fails on such a type, and the        *)
(* iteration of an edge type writes the slots of that type only, so the    *)
(* other types' outputs are what they are for any fanout of this type.     *)
(***************************************************************************)
SkipRule == []SkippedTypeIsPlaceholder /\ [][OnlyOwnSlot]_vars

\* A type skipped on an empty frontier with fanout -1, next to a type that
\* returned edges.
SkipWitness ==
    /\ pc = "done"
    /\ ByTopk
    /\ \E e \in ETypes :
          /\ fanouts[e + 1] = -1
          /\ FrontierArray(e) = <<>>
          /\ Len(hg.rels[e + 1].src) > 0
          /\ ret.induced_edges[e + 1] = NullArray
          /\ \E o \in ETypes \ {e} : Len(ret.induced_edges[o + 1]) > 0

(***************************************************************************)
(* C5.  Cardinality preconditions of SampleNeighbors and                   *)
(* SampleNeighborsTopk: when the frontier-array count differs from the     *)
(* node-type count, or the fanout / k count or the weight-array count from *)
(* the edge-type count, the call fails before any work: no exclusion array *)
(* is read, no filtered copy is built, no slot of the loop is sized or     *)
(* filled, and nothing is returned.                                        *)
(***************************************************************************)
FailsBeforeWork ==
    ((BySampleNeighbors \/ ByTopk) /\ MisSized) =>
        /\ pc \in {"start", "fatal"}
        /\ ~copied
        /\ reads = {}
        /\ g = hg
        /\ subrels = <<>>
        /\ induced_edges = <<>>
        /\ fmt = <<>>
        /\ ret = Undefined

\* A failed call whose weight-array count alone was wrong and that carried
\* an exclusion list.
FailsBeforeWorkWitness ==
    /\ BySampleNeighbors
    /\ pc = "fatal"
    /\ Len(nodes) = Len(hg.nv)
    /\ Len(fanouts) = Len(hg.meta)
    /\ Len(prob) # Len(hg.meta)
    /\ exclude_edges # <<>>

(***************************************************************************)
(* C6.  Per-row sample size in SampleNeighbors with fanout > 0.  As        *)
(* claimed: for every frontier node with c available edges, the output     *)
(* edges whose frontier-side endpoint is that node number min(fanout, c)   *)
(* without replacement, and fanout with replacement when c > 0 (0 when     *)
(* c = 0).                                                                 *)
(***************************************************************************)
RowSizePerNode ==
    (BySampleNeighbors /\ pc = "done" /\ exclude_edges = <<>>) =>
        \A e \in ETypes :
            fanouts[e + 1] > 0 =>
                \A v \in Range(FrontierArray(e)) :
                    RowCount(e, v) =
                        IF replace
                        THEN (IF Available(g, e, v) > 0 THEN fanouts[e + 1] ELSE 0)
                        ELSE Min(fanouts[e + 1], Available(g, e, v))

(***************************************************************************)
(* C6, amended.  The kernel selects once per entry of the frontier array:  *)
(* a node listed m times in the frontier array, with c available edges in  *)
(* the sampled graph, is the frontier-side endpoint of m * min(fanout, c)  *)
(* output edges without replacement, and of m * fanout with replacement    *)
(* when c > 0 (0 when c = 0).                                              *)
(***************************************************************************)
RowSizePerEntry ==
    (BySampleNeighbors /\ pc = "done") =>
        \A e \in ETypes :
            fanouts[e + 1] > 0 =>
                \A v \in Range(FrontierArray(e)) :
                    RowCount(e, v) =
                        Occurrences(FrontierArray(e), v) *
                           (IF replace
                            THEN (IF Available(g, e, v) > 0 THEN fanouts[e + 1] ELSE 0)
                            ELSE Min(fanouts[e + 1], Available(g, e, v)))

\* With replacement, a row with fewer edges than the fanout, filled to the
\* fanout.
RowSizeWitness ==
    /\ BySampleNeighbors
    /\ pc = "done"
    /\ replace
    /\ \E e \in ETypes :
          /\ fanouts[e + 1] > 1
          /\ \E v \in Range(FrontierArray(e)) :
                /\ Available(g, e, v) = 1
                /\ Occurrences(FrontierArray(e), v) = 1
                /\ RowCount(e, v) = fanouts[e + 1]

(***************************************************************************)
(* C7.  Type system preserved: every call of the three entry points that   *)
(* returns yields the input's meta-graph and per-type vertex counts; every *)
(* relation has the input's vertex counts of its bound source and          *)
(* destination types; there is one induced-edge array per edge type and    *)
(* one unpopulated induced-vertex entry per node type.                     *)
(***************************************************************************)
TypeSystemPreserved ==
    (pc = "done") =>
        /\ ret.graph.meta = hg.meta
        /\ ret.graph.nv = hg.nv
        /\ Len(ret.graph.rels) = Len(hg.meta)
        /\ \A e \in ETypes :
              /\ ret.graph.rels[e + 1].num_src = hg.nv[hg.meta[e + 1].src + 1]
              /\ ret.graph.rels[e + 1].num_dst = hg.nv[hg.meta[e + 1].dst + 1]
        /\ Len(ret.induced_edges) = Len(hg.meta)
        /\ ret.induced_vertices = [t \in 1..Len(hg.nv) |-> Undefined]

\* A relation sampled through the CSC matrix, whose row and column counts
\* differ, that returned an edge.
TypeSystemWitness ==
    /\ pc = "done"
    /\ \E e \in ETypes :
          /\ fmt[e + 1] = kCSC
          /\ Len(ret.induced_edges[e + 1]) > 0
          /\ ret.graph.rels[e + 1].num_src # ret.graph.rels[e + 1].num_dst

(***************************************************************************)
(* C8.  Canonical orientation and identity across formats, in              *)
(* SampleNeighbors without an exclusion list and in SampleNeighborsTopk:   *)
(* for every fanout / k > 0 and every format the loop dispatched on, each  *)
(* output edge (row r, column c, identity e) is the input edge e, which    *)
(* goes from source r to destination c, and its frontier-side endpoint is  *)
(* a frontier node.                                                        *)
(***************************************************************************)
CanonicalOrientation ==
    (pc = "done" /\ (ByTopk \/ (BySampleNeighbors /\ exclude_edges = <<>>))) =>
        \A e \in ETypes :
            fanouts[e + 1] > 0 =>
                \A k \in DOMAIN ret.induced_edges[e + 1] :
                    /\ SameEdge(hg, e, k)
                    /\ FrontierSide(hg, e, ret.induced_edges[e + 1][k])
                          \in Range(FrontierArray(e))

\* An inbound top-k through the COO matrix that returned an edge whose
\* source and destination differ.
CanonicalOrientationWitness ==
    /\ pc = "done"
    /\ ByTopk
    /\ dir = kIn
    /\ \E e \in ETypes :
          /\ fmt[e + 1] = kCOO
          /\ \E k \in DOMAIN ret.induced_edges[e + 1] :
                ret.graph.rels[e + 1].src[k] # ret.graph.rels[e + 1].dst[k]

(***************************************************************************)
(* C9.  Exclusion step skipped.  As claimed: whenever every entry of the   *)
(* exclusion list is empty, no filtered copy of the graph is built.        *)
(***************************************************************************)
NoCopyWhenEntriesEmpty ==
    (BySampleNeighbors /\ ~MisSized /\ Len(exclude_edges) \in {0, Len(hg.meta)}
        /\ \A i \in DOMAIN exclude_edges : exclude_edges[i] = {}) =>
        ~copied

(***************************************************************************)
(* C9, amended.  The exclusion step is skipped exactly when the exclusion  *)
(* list itself has no entries: then no exclusion array is read, no         *)
(* filtered copy is built and the loop runs on the input graph; a list     *)
(* that has entries, empty ones included, always leads to a filtered copy. *)
(***************************************************************************)
NoCopyWhenListEmpty ==
    BySampleNeighbors =>
        /\ (exclude_edges = <<>>) => (~copied /\ reads = {} /\ g = hg)
        /\ (exclude_edges # <<>> /\ pc \in {"sampling", "done"}) => copied

\* A call without an exclusion list that returned edges sampled from the
\* input graph itself.
NoCopyWitness ==
    /\ BySampleNeighbors
    /\ pc = "done"
    /\ exclude_edges = <<>>
    /\ ~copied
    /\ \E e \in ETypes : Len(ret.induced_edges[e + 1]) > 0

(***************************************************************************)
(* C10.  Whenever the exclusion step runs, every read exclude_edges[etype] *)
(* is within the bounds of the exclusion list.                             *)
(***************************************************************************)
ExcludeReadsInBounds ==
    \A i \in reads : i < Len(exclude_edges)
====
